---------------------------- MODULE Spec2Model ----------------------------
(***************************************************************************)
(* A model of the coordination core of newsletters-manager:                *)
(*   - MessageBroker           (src/src/agents/base_agent.py)              *)
(*   - BaseAgent lifecycle     (src/src/agents/base_agent.py)              *)
(*   - OrchestratorAgent       (src/src/agents/orchestrator.py)            *)
(*   - the collector, detector and summarizer as far as they publish on    *)
(*     the broker                                                          *)
(*                                                                         *)
(* asyncio runs one task at a time and switches tasks only at an await     *)
(* that really suspends.  Every action below is the code between two such  *)
(* suspension points.                                                      *)
(***************************************************************************)
EXTENDS Integers, Sequences, FiniteSets, TLC

(***************************************************************************)
(* Bounds of the model.                                                    *)
(***************************************************************************)
MaxPublish == 3
MaxSubOps == 3
MaxPublishSubs == 2
MaxRuns == 2
MaxEmails == 1
MaxOps == 1
MaxFires == 3
MaxStopOps == 2
MaxSingleEmails == 3

(***************************************************************************)
(* MessageType (base_agent.py 12-19).  The broker harness publishes the    *)
(* two kinds KindA and KindB.                                              *)
(***************************************************************************)
MessageType ==
    {"email_collected", "newsletter_detected", "summary_generated",
     "emails_marked_read", "task_completed", "error_occurred", "agent_status"}

KindA == "email_collected"
KindB == "newsletter_detected"
HarnessKinds == {KindA, KindB}

(***************************************************************************)
(* Callbacks.  A callback is a bound method; Python compares bound methods *)
(* by (__self__, __func__), so two evaluations of self._handle_x are equal *)
(* and a callback is named by "Owner.method".  h1, h2, h3 are the          *)
(* callbacks of a harness that drives the broker.                          *)
(***************************************************************************)
HarnessCallbacks == {"h1", "h2", "h3"}

DetectorCallback == "NewsletterDetector._handle_email_collected"
SummarizerCallback == "ContentSummarizer._handle_newsletters_detected"

\* the kind each harness callback is registered for
HarnessKind(cb) == IF cb = "h3" THEN KindB ELSE KindA

\* AgentMessage.data: one record shape for every kind of message
EmptyData ==
    [collected_count |-> 0, detected_count |-> 0, processed_count |-> 0,
     newsletters_count |-> 0, email_sent |-> FALSE,
     pipeline_completion |-> FALSE, run |-> 0]

AgentMessage(n, k, who, d) == [id |-> n, type |-> k, sender |-> who, data |-> d]

NoMsg == AgentMessage(0, "agent_status", "none", EmptyData)

VARIABLES
    subscribers,      \* MessageBroker._subscribers: kind -> list of callbacks
    message_queue,    \* MessageBroker._message_queue (FIFO)
    broker_running,   \* MessageBroker._running
    bpc,              \* where the task running MessageBroker.start() is
    cur,              \* the message _process_message is dispatching
    idx,              \* position of the list iterator of the for loop, 1-based
    active,           \* callback invocations that started and have not ended
    agent_running,    \* BaseAgent._running per agent
    nextId,           \* number of messages published so far
    subOps,           \* number of subscribe/unsubscribe calls so far
    log,              \* history: <<message id, callback>> per invocation
    snap,             \* history: subscriber list when the dispatch of cur began
    mutated,          \* history: that list changed during the dispatch of cur
    raisedAt,         \* history: iterator position of the first callback of cur
                      \*          that raised (0: none raised)
    done,             \* history: finished dispatches
    orch_running,     \* OrchestratorAgent._running
    agents,           \* OrchestratorAgent.agents (names of the managed agents)
    ndc,              \* pipeline_state["newsletter_detection_completed"]
    csc,              \* pipeline_state["content_summarization_completed"]
    pipeline_result,  \* pipeline_state["pipeline_result"]: 0 (None) or the run
                      \* whose record it refers to
    runs,             \* the pipeline_result record of each call of run_full_pipeline
    rpc,              \* where each call of run_full_pipeline is
    enteredWait,      \* history: the call registered its record and cleared the flags
    collectRaised,    \* history: email_collector.execute() raised in the call
    ops,              \* number of calls of the orchestrator's other operations
    returned,         \* history: <<operation, status>> of each result such a
                      \*          call handed to its caller
    sched,            \* SchedulerAgent.scheduler: "unset" (None), "created",
                      \* "running" or "shutdown"
    lifecycle,        \* history: the last call of start, stop or health_check
                      \*          of an agent and how it ended
    instances,        \* per scheduler job: invocations running now
    fired,            \* history: per job, the times its trigger fired
    skipped,          \* history: per job, the fires that were dropped
    finished,         \* history: per job, the invocations that ended
    stopping,         \* OrchestratorAgent.stop awaits the cancelled broker task
    queuedAtStop      \* history: ids of the messages that were queued when the
                      \*          broker task was cancelled

brokerVars == <<subscribers, message_queue, broker_running, bpc, cur, idx,
                active, agent_running, nextId, subOps, log, snap, mutated, raisedAt,
                done>>

orchVars == <<orch_running, agents, ndc, csc, pipeline_result, runs, rpc,
              enteredWait, collectRaised>>

opVars == <<ops, returned>>

lifeVars == <<sched, lifecycle>>

jobVars == <<instances, fired, skipped, finished>>

stopVars == <<stopping, queuedAtStop>>

restVars == <<lifeVars, jobVars, stopVars>>

vars == <<brokerVars, orchVars, opVars, restVars>>

(***************************************************************************)
(* Pure list operations of the broker.                                     *)
(***************************************************************************)
Contains(list, cb) == \E i \in 1..Len(list) : list[i] = cb

\* list.remove(cb): removes the first occurrence
RemoveFirst(list, cb) ==
    LET i == CHOOSE j \in 1..Len(list) :
                 list[j] = cb /\ \A m \in 1..(j-1) : list[m] # cb
    IN  SubSeq(list, 1, i-1) \o SubSeq(list, i+1, Len(list))

\* a plausible slip: no duplicate check before the append
SubscribeNoCheck(subs, k, cb) == [subs EXCEPT ![k] = Append(@, cb)]

\* MessageBroker.subscribe
Subscribe(subs, k, cb) ==
    IF Contains(subs[k], cb) THEN subs ELSE [subs EXCEPT ![k] = Append(@, cb)]

\* MessageBroker.unsubscribe
Unsubscribe(subs, k, cb) ==
    IF Contains(subs[k], cb) THEN [subs EXCEPT ![k] = RemoveFirst(@, cb)] ELSE subs

\* MessageBroker.get_subscription_count
get_subscription_count(k) == Len(subscribers[k])

\* a plausible slip: the newest message is taken first
QueueGetLifo(q) == <<q[Len(q)], SubSeq(q, 1, Len(q) - 1)>>

\* asyncio.Queue.get: <<message, rest of the queue>>
QueueGet(q) == <<Head(q), Tail(q)>>

\* MessageBroker.publish: asyncio.Queue.put on an unbounded queue
QueuePut(q, m) == Append(q, m)

\* a plausible slip: the callback is started and not awaited
AfterCallNoAwait == "dispatching"

\* `await callback(message)`: the loop is suspended until the callback ends
AfterCall == "in_callback"

\* a plausible slip: try/except around the for loop, so a raise leaves it
RaiseLeavesLoop(i, n) == n + 1

\* the iterator position after a callback raised: `except` is inside the
\* loop body, so the loop goes on with the next callback
AfterRaise(i, n) == i

(***************************************************************************)
(* The dispatch loop: MessageBroker.start and _process_message.            *)
(***************************************************************************)
CurList == subscribers[cur.type]

\* some task other than the dispatch loop holds the processor
OthersRun == bpc # "dispatching"

BrokerStart ==
    /\ bpc = "idle"
    /\ broker_running' = TRUE
    /\ bpc' = "waiting"
    /\ UNCHANGED <<subscribers, message_queue, cur, idx, active, agent_running,
                   nextId, subOps, log, snap, mutated, raisedAt, done>>

\* wait_for(queue.get(), 1.0) returns a message; _process_message begins
BrokerGet ==
    /\ bpc = "waiting"
    /\ broker_running
    /\ message_queue # <<>>
    /\ cur' = QueueGet(message_queue)[1]
    /\ message_queue' = QueueGet(message_queue)[2]
    /\ idx' = 1
    /\ bpc' = "dispatching"
    /\ snap' = subscribers[cur'.type]
    /\ mutated' = FALSE
    /\ UNCHANGED <<subscribers, broker_running, active, agent_running, nextId,
                   subOps, log, done>>
    /\ raisedAt' = 0

\* wait_for times out on the empty queue: `continue`
BrokerTimeout ==
    /\ bpc = "waiting"
    /\ broker_running
    /\ message_queue = <<>>
    /\ UNCHANGED vars

\* the for loop takes the next callback of the live list and calls it
CallbackStart(cb) ==
    /\ bpc = "dispatching"
    /\ idx <= Len(CurList)
    /\ cb = CurList[idx]
    /\ idx' = idx + 1
    /\ log' = Append(log, <<cur.id, cb>>)
    /\ active' = active \cup {<<cur.id, cb>>}
    /\ bpc' = AfterCall
    /\ UNCHANGED <<subscribers, message_queue, broker_running, cur,
                   agent_running, nextId, subOps, snap, mutated, raisedAt, done>>

\* a callback returns, or raises into the except of _process_message
CallbackEnd(inv, raised) ==
    /\ inv \in active
    /\ active' = active \ {inv}
    /\ bpc' = IF bpc = "in_callback" THEN "dispatching" ELSE bpc
    /\ idx' = IF raised /\ inv[1] = cur.id THEN AfterRaise(idx, Len(CurList)) ELSE idx
    /\ raisedAt' = IF raised /\ inv[1] = cur.id /\ raisedAt = 0 THEN idx - 1 ELSE raisedAt
    /\ UNCHANGED <<subscribers, message_queue, broker_running, cur,
                   agent_running, nextId, subOps, log, snap, mutated, done>>

\* the list iterator is exhausted: _process_message returns
DispatchEnd ==
    /\ bpc = "dispatching"
    /\ idx > Len(CurList)
    /\ bpc' = "waiting"
    /\ done' = done \cup {[id |-> cur.id, type |-> cur.type, snap |-> snap,
                           mutated |-> mutated, raisedAt |-> raisedAt]}
    /\ cur' = NoMsg
    /\ UNCHANGED <<subscribers, message_queue, broker_running, idx, active,
                   agent_running, nextId, subOps, log, snap, mutated, raisedAt>>

(***************************************************************************)
(* Calls of the broker's API by the harness: by a task that runs while the *)
(* loop waits, or by the callback that is being invoked.                   *)
(***************************************************************************)
ListChanged(subs2, k) == cur # NoMsg /\ cur.type = k /\ subs2[k] # subscribers[k]

HarnessPublish(k) ==
    /\ OthersRun
    /\ nextId' = nextId + 1
    /\ message_queue' = QueuePut(message_queue,
                                 AgentMessage(nextId + 1, k, "harness", EmptyData))
    /\ UNCHANGED <<subscribers, broker_running, bpc, cur, idx, active,
                   agent_running, subOps, log, snap, mutated, raisedAt, done>>

HarnessSubscribe(cb) ==
    /\ OthersRun
    /\ subOps' = subOps + 1
    /\ subscribers' = Subscribe(subscribers, HarnessKind(cb), cb)
    /\ mutated' = (mutated \/ ListChanged(subscribers', HarnessKind(cb)))
    /\ UNCHANGED <<message_queue, broker_running, bpc, cur, idx, active,
                   agent_running, nextId, log, snap, raisedAt, done>>

HarnessUnsubscribe(cb) ==
    /\ OthersRun
    /\ subOps' = subOps + 1
    /\ subscribers' = Unsubscribe(subscribers, HarnessKind(cb), cb)
    /\ mutated' = (mutated \/ ListChanged(subscribers', HarnessKind(cb)))
    /\ UNCHANGED <<message_queue, broker_running, bpc, cur, idx, active,
                   agent_running, nextId, log, snap, raisedAt, done>>

(***************************************************************************)
(* Agents whose start() runs _setup_subscriptions twice: BaseAgent.start   *)
(* calls it, and the subclass's start calls it again.                      *)
(***************************************************************************)
DoubleSetupAgents == {"NewsletterDetector", "ContentSummarizer"}

\* OrchestratorAgent.agents, in the order _initialize_agents starts them
ManagedAgents == {"EmailCollector", "NewsletterDetector", "ContentSummarizer",
                  "Scheduler"}

AgentKind(a) ==
    IF a = "NewsletterDetector" THEN "email_collected" ELSE "newsletter_detected"

AgentCallback(a) ==
    IF a = "NewsletterDetector" THEN DetectorCallback ELSE SummarizerCallback

\* one run of _setup_subscriptions of agent a
SetupSubscriptions(subs, a) == Subscribe(subs, AgentKind(a), AgentCallback(a))

\* NewsletterDetectorAgent.start / ContentSummarizerAgent.start
\* (OrchestratorAgent.start starts the agents before it creates the broker task)
AgentStart(a) ==
    /\ bpc = "idle"
    /\ ~agent_running[a]
    /\ agent_running' = [agent_running EXCEPT ![a] = TRUE]
    /\ subscribers' = SetupSubscriptions(SetupSubscriptions(subscribers, a), a)
    /\ mutated' = (mutated \/ ListChanged(subscribers', AgentKind(a)))
    /\ UNCHANGED <<message_queue, broker_running, bpc, cur, idx, active,
                   nextId, subOps, log, snap, raisedAt, done>>

AllCallbacks == HarnessCallbacks \cup {DetectorCallback, SummarizerCallback}

InitBroker ==
    /\ subscribers = [k \in MessageType |-> <<>>]
    /\ message_queue = <<>>
    /\ broker_running = FALSE
    /\ bpc = "idle"
    /\ cur = NoMsg
    /\ idx = 1
    /\ active = {}
    /\ agent_running = [a \in ManagedAgents |-> FALSE]
    /\ nextId = 0
    /\ subOps = 0
    /\ log = <<>>
    /\ snap = <<>>
    /\ mutated = FALSE
    /\ raisedAt = 0
    /\ done = {}

(***************************************************************************)
(* OrchestratorAgent.                                                      *)
(***************************************************************************)
OrchDetectionCallback == "Orchestrator._handle_newsletter_detection_completed"
OrchSummarizationCallback == "Orchestrator._handle_summarization_completed"
OrchMarkedReadCallback == "Orchestrator._handle_emails_marked_read_completed"
OrchErrorCallback == "Orchestrator._handle_error_message"
OrchTaskCallback == "Orchestrator._handle_task_completed"

RunIds == 1..MaxRuns

StepNames == {"email_collection", "newsletter_detection", "content_summarization",
              "email_sending", "mark_emails_read"}

\* an entry of pipeline_result["steps"]; status "absent": no such key
Step(s, n, p) == [status |-> s, count |-> n, processed |-> p]

StepAbsent == Step("absent", 0, 0)

\* the record built at the top of run_full_pipeline
NewPipelineResult ==
    [status |-> "started", steps |-> [s \in StepNames |-> StepAbsent],
     error |-> FALSE, message |-> "none"]

NoPipelineResult == [NewPipelineResult EXCEPT !.status = "none"]

\* the fields class Settings declares (utils/config.py)
SettingsFields ==
    {"gmail_credentials_path_1", "gmail_credentials_path_2",
     "gmail_credentials_path_3", "outlook_client_id", "outlook_client_secret",
     "outlook_tenant_id", "outlook_email", "openai_api_key", "openai_model",
     "openai_max_tokens", "database_url", "daily_summary_time", "timezone",
     "smtp_host", "smtp_port", "smtp_username", "smtp_password",
     "summary_recipient", "log_level", "log_file", "max_emails_per_run",
     "summary_max_newsletters", "min_confidence_score",
     "gmail_requests_per_minute", "outlook_requests_per_minute",
     "openai_requests_per_minute", "gmail_credentials_paths",
     "all_credentials_exist"}

\* self.settings.<name>: reading a name the class does not declare raises
\* AttributeError
HasSetting(name) == name \in SettingsFields

\* a plausible slip: the test for an empty collection never succeeds
IsZeroNever(n) == n < 0

\* email_result.get("collected_count", 0) == 0
IsZero(n) == n = 0

\* a plausible slip: the except branch leaves the status as it is
ExceptResultKeepsStatus(rec) == [rec EXCEPT !.error = TRUE]

\* the except branch of run_full_pipeline
ExceptResult(rec) == [rec EXCEPT !.status = "failed", !.error = TRUE]

RECURSIVE SubscribeEach(_, _)
SubscribeEach(subs, pairs) ==
    IF pairs = <<>> THEN subs
    ELSE SubscribeEach(Subscribe(subs, pairs[1][1], pairs[1][2]), Tail(pairs))

\* a plausible slip: the orchestrator does not subscribe to NEWSLETTER_DETECTED
OrchestratorSubscriptionsNoDetection ==
    << <<"error_occurred", OrchErrorCallback>>,
       <<"task_completed", OrchTaskCallback>>,
       <<"summary_generated", OrchSummarizationCallback>>,
       <<"emails_marked_read", OrchMarkedReadCallback>> >>

\* the subscriptions of _setup_message_broker, in order
OrchestratorSubscriptions ==
    << <<"error_occurred", OrchErrorCallback>>,
       <<"task_completed", OrchTaskCallback>>,
       <<"newsletter_detected", OrchDetectionCallback>>,
       <<"summary_generated", OrchSummarizationCallback>>,
       <<"emails_marked_read", OrchMarkedReadCallback>> >>

\* OrchestratorAgent.start: the agents are created and started, the broker
\* task is created, the orchestrator's callbacks are subscribed
OrchestratorStart ==
    /\ ~orch_running
    /\ bpc = "idle"
    /\ orch_running' = TRUE
    /\ agents' = ManagedAgents
    /\ agent_running' = [a \in ManagedAgents |-> TRUE]
    /\ subscribers' =
           SubscribeEach(
               SetupSubscriptions(
                   SetupSubscriptions(
                       SetupSubscriptions(
                           SetupSubscriptions(subscribers, "NewsletterDetector"),
                           "NewsletterDetector"),
                       "ContentSummarizer"),
                   "ContentSummarizer"),
               OrchestratorSubscriptions)
    /\ broker_running' = TRUE
    /\ bpc' = "waiting"
    /\ UNCHANGED <<message_queue, cur, idx, active, nextId, subOps, log, snap,
                   mutated, raisedAt, done>>
    /\ UNCHANGED <<ndc, csc, pipeline_result, runs, rpc, enteredWait, collectRaised>>
    /\ sched' = "running"
    /\ UNCHANGED <<opVars, lifecycle, jobVars, stopVars>>

\* AgentMessage.create and MessageBroker.publish by an agent
Publish(q, n, k, who, d) == QueuePut(q, AgentMessage(n, k, who, d))

\* run_full_pipeline is called: the record is built and
\* email_collector.execute() is awaited
RunStart(r) ==
    /\ OthersRun
    /\ orch_running
    /\ rpc[r] = "idle"
    /\ \A q \in RunIds : q < r => rpc[q] # "idle"
    /\ runs' = [runs EXCEPT ![r] = NewPipelineResult]
    /\ rpc' = [rpc EXCEPT ![r] = "collecting"]
    /\ UNCHANGED brokerVars
    /\ UNCHANGED <<orch_running, agents, ndc, csc, pipeline_result, enteredWait,
                   collectRaised>>
    /\ UNCHANGED <<opVars, restVars>>

\* EmailCollectorAgent.execute publishes EMAIL_COLLECTED and returns n emails;
\* run_full_pipeline goes on to its next suspension point or to its return
CollectReturn(r, n) ==
    /\ OthersRun
    /\ rpc[r] = "collecting"
    /\ nextId' = nextId + 1
    /\ message_queue' =
           Publish(message_queue, nextId + 1, "email_collected", "EmailCollector",
                   [EmptyData EXCEPT !.collected_count = n, !.run = r])
    /\ LET collected == [runs[r] EXCEPT !.steps["email_collection"] =
                                            Step("completed", n, 0)]
           waiting == [collected EXCEPT !.steps["newsletter_detection"] =
                                            Step("in_progress", 0, 0)]
       IN  IF IsZero(n)
           THEN /\ runs' = [runs EXCEPT ![r] =
                               [collected EXCEPT !.status = "completed",
                                                 !.message = "No emails to process"]]
                /\ rpc' = [rpc EXCEPT ![r] = "returned"]
                /\ UNCHANGED <<ndc, csc, pipeline_result, enteredWait>>
           ELSE /\ pipeline_result' = r
                /\ ndc' = FALSE
                /\ csc' = FALSE
                /\ enteredWait' = [enteredWait EXCEPT ![r] = TRUE]
                /\ IF HasSetting("pipeline_timeout_seconds")
                   THEN /\ runs' = [runs EXCEPT ![r] = waiting]
                        /\ rpc' = [rpc EXCEPT ![r] = "polling"]
                   ELSE /\ runs' = [runs EXCEPT ![r] = ExceptResult(waiting)]
                        /\ rpc' = [rpc EXCEPT ![r] = "returned"]
    /\ UNCHANGED <<subscribers, broker_running, bpc, cur, idx, active,
                   agent_running, subOps, log, snap, mutated, raisedAt, done>>
    /\ UNCHANGED <<orch_running, agents, collectRaised>>
    /\ UNCHANGED <<opVars, restVars>>

\* EmailCollectorAgent.execute raises (storing the emails fails): the except
\* branch of run_full_pipeline
CollectRaise(r) ==
    /\ OthersRun
    /\ rpc[r] = "collecting"
    /\ runs' = [runs EXCEPT ![r] = ExceptResult(runs[r])]
    /\ rpc' = [rpc EXCEPT ![r] = "returned"]
    /\ collectRaised' = [collectRaised EXCEPT ![r] = TRUE]
    /\ UNCHANGED brokerVars
    /\ UNCHANGED <<orch_running, agents, ndc, csc, pipeline_result, enteredWait>>
    /\ UNCHANGED <<opVars, restVars>>

(***************************************************************************)
(* The callbacks of the agents, called by _process_message.                *)
(***************************************************************************)
\* the for loop of _process_message is about to call cb
Calls(cb) ==
    /\ bpc = "dispatching"
    /\ idx <= Len(CurList)
    /\ CurList[idx] = cb

\* a callback that does not suspend was called and has returned
CalledThrough(cb) ==
    /\ Calls(cb)
    /\ idx' = idx + 1
    /\ log' = Append(log, <<cur.id, cb>>)
    /\ UNCHANGED <<subscribers, broker_running, bpc, cur, active, agent_running,
                   subOps, snap, mutated, raisedAt, done>>

\* a callback that suspended returns, or raises, into _process_message
Ends(cb, raised) ==
    /\ <<cur.id, cb>> \in active
    /\ active' = active \ {<<cur.id, cb>>}
    /\ bpc' = IF bpc = "in_callback" THEN "dispatching" ELSE bpc
    /\ idx' = IF raised THEN AfterRaise(idx, Len(CurList)) ELSE idx
    /\ raisedAt' = IF raised /\ raisedAt = 0 THEN idx - 1 ELSE raisedAt
    /\ UNCHANGED <<subscribers, broker_running, cur, agent_running, subOps, log,
                   snap, mutated, done>>

\* NewsletterDetectorAgent._handle_email_collected with no emails
DetectorSkip ==
    /\ cur.data.collected_count = 0
    /\ CalledThrough(DetectorCallback)
    /\ UNCHANGED <<message_queue, nextId>>
    /\ UNCHANGED <<orchVars, opVars, restVars>>

\* NewsletterDetectorAgent._handle_email_collected awaits execute(emails)
DetectorBegin ==
    /\ Calls(DetectorCallback)
    /\ cur.data.collected_count > 0
    /\ CallbackStart(DetectorCallback)
    /\ UNCHANGED <<orchVars, opVars, restVars>>

\* NewsletterDetectorAgent.execute publishes NEWSLETTER_DETECTED: d newsletters
\* detected, p emails processed without an error
DetectorFinish(d, p) ==
    /\ Ends(DetectorCallback, FALSE)
    /\ d <= cur.data.collected_count
    /\ p <= cur.data.collected_count
    /\ nextId' = nextId + 1
    /\ message_queue' =
           Publish(message_queue, nextId + 1, "newsletter_detected",
                   "NewsletterDetector",
                   [EmptyData EXCEPT !.detected_count = d, !.processed_count = p,
                                     !.run = cur.data.run])
    /\ UNCHANGED <<orchVars, opVars, restVars>>

\* ContentSummarizerAgent._handle_newsletters_detected with no newsletters
SummarizerSkip ==
    /\ cur.data.detected_count = 0
    /\ CalledThrough(SummarizerCallback)
    /\ UNCHANGED <<message_queue, nextId>>
    /\ UNCHANGED <<orchVars, opVars, restVars>>

\* ContentSummarizerAgent._handle_newsletters_detected awaits execute(newsletters)
SummarizerBegin ==
    /\ Calls(SummarizerCallback)
    /\ cur.data.detected_count > 0
    /\ CallbackStart(SummarizerCallback)
    /\ UNCHANGED <<orchVars, opVars, restVars>>

\* ContentSummarizerAgent.execute succeeds with k summaries: when the digest
\* was sent it publishes the EMAILS_MARKED_READ request, then SUMMARY_GENERATED
SummarizerFinish(k, sent) ==
    /\ Ends(SummarizerCallback, FALSE)
    /\ k >= 1
    /\ k <= cur.data.detected_count
    /\ LET request == [EmptyData EXCEPT !.run = cur.data.run]
           summary == [EmptyData EXCEPT !.newsletters_count = k,
                                        !.email_sent = sent,
                                        !.run = cur.data.run]
       IN  IF sent
           THEN /\ nextId' = nextId + 2
                /\ message_queue' =
                       Publish(Publish(message_queue, nextId + 1,
                                       "emails_marked_read", "ContentSummarizer",
                                       request),
                               nextId + 2, "summary_generated",
                               "ContentSummarizer", summary)
           ELSE /\ nextId' = nextId + 1
                /\ message_queue' =
                       Publish(message_queue, nextId + 1, "summary_generated",
                               "ContentSummarizer", summary)
    /\ UNCHANGED <<orchVars, opVars, restVars>>

\* ContentSummarizerAgent.execute raises SummaryGenerationException, which
\* leaves the callback and is caught by _process_message
SummarizerRaise ==
    /\ Ends(SummarizerCallback, TRUE)
    /\ UNCHANGED <<message_queue, nextId>>
    /\ UNCHANGED <<orchVars, opVars, restVars>>

\* a plausible slip: the content_summarization step is seeded for every
\* NEWSLETTER_DETECTED message
SeedsSummarizationAlways(d) == TRUE

\* message.data.get("detected_count", 0) > 0
SeedsSummarization(d) == d.detected_count > 0

\* OrchestratorAgent._handle_newsletter_detection_completed
OrchDetectionCompleted ==
    /\ CalledThrough(OrchDetectionCallback)
    /\ ndc' = TRUE
    /\ IF pipeline_result # 0
       THEN runs' = [runs EXCEPT ![pipeline_result] =
                [@ EXCEPT !.steps = [@ EXCEPT
                    !["newsletter_detection"] =
                        Step("completed", cur.data.detected_count,
                             cur.data.processed_count),
                    !["content_summarization"] =
                        IF SeedsSummarization(cur.data)
                        THEN Step("in_progress", 0, 0) ELSE @]]]
       ELSE UNCHANGED runs
    /\ UNCHANGED <<message_queue, nextId>>
    /\ UNCHANGED <<orch_running, agents, csc, pipeline_result, rpc, enteredWait,
                   collectRaised>>
    /\ UNCHANGED <<opVars, restVars>>

\* OrchestratorAgent._handle_summarization_completed
OrchSummarizationCompleted ==
    /\ CalledThrough(OrchSummarizationCallback)
    /\ csc' = TRUE
    /\ IF pipeline_result # 0
       THEN runs' = [runs EXCEPT ![pipeline_result] =
                [@ EXCEPT !.steps = [@ EXCEPT
                    !["content_summarization"] =
                        Step("completed", cur.data.newsletters_count, 0),
                    !["email_sending"] =
                        IF cur.data.email_sent THEN Step("completed", 1, 0) ELSE @,
                    !["mark_emails_read"] =
                        Step("in_progress", cur.data.newsletters_count, 0)]]]
       ELSE UNCHANGED runs
    /\ UNCHANGED <<message_queue, nextId>>
    /\ UNCHANGED <<orch_running, agents, ndc, pipeline_result, rpc, enteredWait,
                   collectRaised>>
    /\ UNCHANGED <<opVars, restVars>>

\* a plausible slip: every EMAILS_MARKED_READ message is taken as the
\* pipeline's completion message
IsPipelineCompletionAlways(d) == TRUE

\* message.data.get("pipeline_completion", False)
IsPipelineCompletion(d) == d.pipeline_completion

\* OrchestratorAgent._handle_emails_marked_read_completed
OrchEmailsMarkedRead ==
    /\ CalledThrough(OrchMarkedReadCallback)
    /\ IF IsPipelineCompletion(cur.data) /\ pipeline_result # 0
       THEN runs' = [runs EXCEPT ![pipeline_result] =
                [@ EXCEPT !.steps["mark_emails_read"] = Step("completed", 0, 0)]]
       ELSE UNCHANGED runs
    /\ UNCHANGED <<message_queue, nextId>>
    /\ UNCHANGED <<orch_running, agents, ndc, csc, pipeline_result, rpc,
                   enteredWait, collectRaised>>
    /\ UNCHANGED <<opVars, restVars>>

InitOrch ==
    /\ orch_running = FALSE
    /\ agents = {}
    /\ ndc = FALSE
    /\ csc = FALSE
    /\ pipeline_result = 0
    /\ runs = [r \in RunIds |-> NoPipelineResult]
    /\ rpc = [r \in RunIds |-> "idle"]
    /\ enteredWait = [r \in RunIds |-> FALSE]
    /\ collectRaised = [r \in RunIds |-> FALSE]

\* the "status" of a result dict that has no such key
NoStatus == "absent"

\* the dict EmailCollectorAgent.execute returns
CollectorResult == NoStatus

\* the result of an except branch: {"status": "failed", "error": str(e)}
FailedResult == "failed"

Return(op, status) == returned' = returned \cup {<<op, status>>}

\* collect_emails_only: email_collector.execute() publishes EMAIL_COLLECTED
\* and its result is returned as it is
CollectEmailsOnly(n) ==
    /\ OthersRun
    /\ orch_running
    /\ ops' = ops + 1
    /\ nextId' = nextId + 1
    /\ message_queue' =
           Publish(message_queue, nextId + 1, "email_collected", "EmailCollector",
                   [EmptyData EXCEPT !.collected_count = n])
    /\ Return("collect_emails_only", CollectorResult)
    /\ UNCHANGED <<subscribers, broker_running, bpc, cur, idx, active,
                   agent_running, subOps, log, snap, mutated, raisedAt, done>>
    /\ UNCHANGED <<orchVars, restVars>>

\* collect_emails_only: email_collector.execute() raises
CollectEmailsOnlyRaise ==
    /\ OthersRun
    /\ orch_running
    /\ ops' = ops + 1
    /\ Return("collect_emails_only", FailedResult)
    /\ UNCHANGED <<brokerVars, orchVars, restVars>>

\* the dict NewsletterDetectorAgent.execute returns
DetectorResult == NoStatus

\* the health_info dict get_system_health returns
HealthInfo == NoStatus

\* "completed" if result else "failed", for the dict run_full_pipeline returns
ManualSummaryStatus(result) == IF result.status # "none" THEN "completed" ELSE "failed"

\* a call of one of the orchestrator's operations returns without publishing
OperationReturns(op, status) ==
    /\ OthersRun
    /\ orch_running
    /\ ops' = ops + 1
    /\ Return(op, status)
    /\ UNCHANGED <<brokerVars, orchVars, restVars>>

\* detect_newsletters_only: newsletter_detector.execute(unprocessed_emails)
\* publishes NEWSLETTER_DETECTED and its result is returned as it is
DetectNewslettersOnly(d, p) ==
    /\ OthersRun
    /\ orch_running
    /\ ops' = ops + 1
    /\ nextId' = nextId + 1
    /\ message_queue' =
           Publish(message_queue, nextId + 1, "newsletter_detected",
                   "NewsletterDetector",
                   [EmptyData EXCEPT !.detected_count = d, !.processed_count = p])
    /\ Return("detect_newsletters_only", DetectorResult)
    /\ UNCHANGED <<subscribers, broker_running, bpc, cur, idx, active,
                   agent_running, subOps, log, snap, mutated, raisedAt, done>>
    /\ UNCHANGED <<orchVars, restVars>>

\* detect_newsletters_only with no unprocessed emails
DetectNewslettersOnlyNone ==
    OperationReturns("detect_newsletters_only", "completed")

\* detect_newsletters_only: get_unprocessed_emails() raises
DetectNewslettersOnlyRaise ==
    OperationReturns("detect_newsletters_only", FailedResult)

\* generate_summary_only: content_summarizer.execute() makes a summary of k
\* newsletters and publishes as in the pipeline; the summary is sent (again)
GenerateSummaryOnly(k, sent) ==
    /\ OthersRun
    /\ orch_running
    /\ ops' = ops + 1
    /\ LET request == EmptyData
           summary == [EmptyData EXCEPT !.newsletters_count = k,
                                        !.email_sent = sent]
       IN  IF sent
           THEN /\ nextId' = nextId + 2
                /\ message_queue' =
                       Publish(Publish(message_queue, nextId + 1,
                                       "emails_marked_read", "ContentSummarizer",
                                       request),
                               nextId + 2, "summary_generated",
                               "ContentSummarizer", summary)
           ELSE /\ nextId' = nextId + 1
                /\ message_queue' =
                       Publish(message_queue, nextId + 1, "summary_generated",
                               "ContentSummarizer", summary)
    /\ Return("generate_summary_only", "completed")
    /\ UNCHANGED <<subscribers, broker_running, bpc, cur, idx, active,
                   agent_running, subOps, log, snap, mutated, raisedAt, done>>
    /\ UNCHANGED <<orchVars, restVars>>

\* generate_summary_only with no unprocessed newsletters
GenerateSummaryOnlyNone ==
    OperationReturns("generate_summary_only", "completed")

\* generate_summary_only: content_summarizer.execute() raises
GenerateSummaryOnlyRaise ==
    OperationReturns("generate_summary_only", FailedResult)

\* get_system_health
GetSystemHealth == OperationReturns("get_system_health", HealthInfo)

\* trigger_manual_summary: the call of run_full_pipeline it awaited was run r
TriggerManualSummaryReturns(r) ==
    /\ rpc[r] = "returned"
    /\ OperationReturns("trigger_manual_summary", ManualSummaryStatus(runs[r]))

InitOps ==
    /\ ops = 0
    /\ returned = {}

(***************************************************************************)
(* The lifecycle of the agents: start, stop and health_check of an agent   *)
(* object, called directly.                                                *)
(***************************************************************************)
NoCall == [op |-> "none", agent |-> "none", raised |-> FALSE, status |-> "none"]

Call(op, a, raised, status) ==
    [op |-> op, agent |-> a, raised |-> raised, status |-> status]

\* the agents whose start() runs an initialisation of their own that may raise
InitialisingAgents == {"EmailCollector", "Scheduler"}

\* a plausible slip: stop() reads self.scheduler.running without testing
\* self.scheduler, which raises AttributeError on None
SchedulerStopUnguarded(s) == s = "unset"

\* SchedulerAgent.stop raises: never, self.scheduler is tested first
SchedulerStopRaises(s) == FALSE

\* "running" if self._running else "stopped"
HealthStatus(running) == IF running THEN "running" ELSE "stopped"

\* a.start(): BaseAgent.start sets _running and sets up the subscriptions,
\* then the agent's own initialisation runs (fails: it raises)
StartAgent(a, fails) ==
    /\ fails => a \in InitialisingAgents
    /\ agent_running' = [agent_running EXCEPT ![a] = TRUE]
    /\ subscribers' =
           IF a \in DoubleSetupAgents
           THEN SetupSubscriptions(SetupSubscriptions(subscribers, a), a)
           ELSE subscribers
    /\ sched' = IF a = "Scheduler"
                THEN (IF fails THEN "created" ELSE "running")
                ELSE sched
    /\ lifecycle' = Call("start", a, fails, "none")
    /\ UNCHANGED <<message_queue, broker_running, bpc, cur, idx, active, nextId,
                   subOps, log, snap, mutated, raisedAt, done>>
    /\ UNCHANGED <<orchVars, opVars, jobVars, stopVars>>

\* a.stop(): SchedulerAgent shuts its scheduler down if it has a running
\* one; BaseAgent.stop clears _running
StopAgent(a) ==
    LET raises == a = "Scheduler" /\ SchedulerStopRaises(sched)
    IN  /\ agent_running' =
               IF raises THEN agent_running
               ELSE [agent_running EXCEPT ![a] = FALSE]
        /\ sched' = IF a = "Scheduler" /\ ~raises /\ sched = "running"
                    THEN "shutdown" ELSE sched
        /\ lifecycle' = Call("stop", a, raises, "none")
        /\ UNCHANGED <<subscribers, message_queue, broker_running, bpc, cur, idx,
                       active, nextId, subOps, log, snap, mutated, raisedAt,
                       done>>
        /\ UNCHANGED <<orchVars, opVars, jobVars, stopVars>>

\* a.health_check(): the snapshot of BaseAgent.health_check, extended by the agent
HealthCheck(a) ==
    /\ lifecycle' = Call("health_check", a, FALSE, HealthStatus(agent_running[a]))
    /\ UNCHANGED <<brokerVars, orchVars, opVars, sched, jobVars, stopVars>>

InitLife ==
    /\ sched = "unset"
    /\ lifecycle = NoCall

(***************************************************************************)
(* The recurring jobs SchedulerAgent._initialize_scheduler adds to its     *)
(* AsyncIOScheduler.  The scheduler submits an invocation of a job when    *)
(* the job's trigger fires, unless the job has max_instances invocations   *)
(* running; such a fire is logged and dropped.                             *)
(***************************************************************************)
Jobs == {"daily_summary", "health_check"}

\* max_instances of both jobs
max_instances == 1

\* a plausible slip: the jobs are added without a limit of instances
MayStartUnlimited(n) == TRUE

\* the scheduler submits a fire only below max_instances running invocations
MayStart(n) == n < max_instances

\* the trigger of job j fires
JobFire(j) ==
    /\ sched = "running"
    /\ fired' = [fired EXCEPT ![j] = @ + 1]
    /\ IF MayStart(instances[j])
       THEN /\ instances' = [instances EXCEPT ![j] = @ + 1]
            /\ UNCHANGED skipped
       ELSE /\ skipped' = [skipped EXCEPT ![j] = @ + 1]
            /\ UNCHANGED instances
    /\ UNCHANGED <<brokerVars, orchVars, opVars, lifeVars, stopVars, finished>>

\* an invocation of job j (_run_daily_summary, _health_check_job) returns;
\* both catch every exception
JobEnd(j) ==
    /\ instances[j] > 0
    /\ instances' = [instances EXCEPT ![j] = @ - 1]
    /\ finished' = [finished EXCEPT ![j] = @ + 1]
    /\ UNCHANGED <<brokerVars, orchVars, opVars, lifeVars, stopVars, fired, skipped>>

InitJobs ==
    /\ instances = [j \in Jobs |-> 0]
    /\ fired = [j \in Jobs |-> 0]
    /\ skipped = [j \in Jobs |-> 0]
    /\ finished = [j \in Jobs |-> 0]

(***************************************************************************)
(* OrchestratorAgent.stop, and start() called again afterwards.  The       *)
(* broker is the module-level message_broker: its queue and its            *)
(* subscriber lists outlive the broker task.                               *)
(***************************************************************************)
\* the callback of the agent object a second start() creates: a bound method
\* of another object, so it is not equal to the first one's
RestartedCallback(a) ==
    IF a = "NewsletterDetector"
    THEN "NewsletterDetector#2._handle_email_collected"
    ELSE "ContentSummarizer#2._handle_newsletters_detected"

Restarted ==
    Contains(subscribers[AgentKind("NewsletterDetector")],
             RestartedCallback("NewsletterDetector"))

\* the ids of the messages in q
QueuedIds(q) == {q[i].id : i \in 1..Len(q)}

\* stop(): self.message_broker_task.cancel(), then the task is awaited.  The
\* task ends at the await it is suspended in, with the callback it awaits
OrchestratorStopCancel ==
    /\ OthersRun
    /\ orch_running
    /\ ~stopping
    /\ stopping' = TRUE
    /\ bpc' = "idle"
    /\ active' = {}
    /\ queuedAtStop' = queuedAtStop \cup QueuedIds(message_queue)
    /\ UNCHANGED <<subscribers, message_queue, broker_running, cur, idx,
                   agent_running, nextId, subOps, log, snap, mutated, raisedAt,
                   done>>
    /\ UNCHANGED <<orchVars, opVars, lifeVars, jobVars>>

\* the rest of stop(): message_broker.stop(), every agent's stop(),
\* BaseAgent.stop
OrchestratorStopFinish ==
    /\ OthersRun
    /\ stopping
    /\ stopping' = FALSE
    /\ broker_running' = FALSE
    /\ agent_running' = [a \in ManagedAgents |-> FALSE]
    /\ sched' = IF sched = "running" THEN "shutdown" ELSE sched
    /\ orch_running' = FALSE
    /\ UNCHANGED <<subscribers, message_queue, bpc, cur, idx, active, nextId,
                   subOps, log, snap, mutated, raisedAt, done>>
    /\ UNCHANGED <<agents, ndc, csc, pipeline_result, runs, rpc, enteredWait,
                   collectRaised>>
    /\ UNCHANGED <<opVars, lifecycle, jobVars, queuedAtStop>>

\* stop() when scheduler.shutdown() raises inside SchedulerAgent.stop, the last
\* agent of self.agents: the three agents before it are stopped, the
\* scheduler's BaseAgent.stop and the orchestrator's super().stop() are
\* skipped, the except clause logs the error and stop() returns
OrchestratorStopFinishRaise ==
    /\ OthersRun
    /\ stopping
    /\ sched = "running"
    /\ stopping' = FALSE
    /\ broker_running' = FALSE
    /\ agent_running' = [a \in ManagedAgents |->
                            IF a = "Scheduler" THEN agent_running[a] ELSE FALSE]
    /\ sched' \in {sched, "shutdown"}
    /\ UNCHANGED orch_running
    /\ UNCHANGED <<subscribers, message_queue, bpc, cur, idx, active, nextId,
                   subOps, log, snap, mutated, raisedAt, done>>
    /\ UNCHANGED <<agents, ndc, csc, pipeline_result, runs, rpc, enteredWait,
                   collectRaised>>
    /\ UNCHANGED <<opVars, lifecycle, jobVars, queuedAtStop>>

\* start() on the stopped orchestrator: new agent objects are created and
\* started, a new broker task is created on the same broker, the
\* orchestrator's own callbacks are found subscribed already
OrchestratorStartAgain ==
    /\ ~orch_running
    /\ ~stopping
    /\ bpc = "idle"
    /\ agents # {}
    /\ ~Restarted
    /\ orch_running' = TRUE
    /\ agent_running' = [a \in ManagedAgents |-> TRUE]
    /\ sched' = "running"
    /\ subscribers' =
           SubscribeEach(subscribers,
               << <<AgentKind("NewsletterDetector"),
                    RestartedCallback("NewsletterDetector")>>,
                  <<AgentKind("NewsletterDetector"),
                    RestartedCallback("NewsletterDetector")>>,
                  <<AgentKind("ContentSummarizer"),
                    RestartedCallback("ContentSummarizer")>>,
                  <<AgentKind("ContentSummarizer"),
                    RestartedCallback("ContentSummarizer")>> >>
               \o OrchestratorSubscriptions)
    /\ broker_running' = TRUE
    /\ bpc' = "waiting"
    /\ UNCHANGED <<message_queue, cur, idx, active, nextId, subOps, log, snap,
                   mutated, raisedAt, done>>
    /\ UNCHANGED <<agents, ndc, csc, pipeline_result, runs, rpc, enteredWait,
                   collectRaised>>
    /\ UNCHANGED <<opVars, lifecycle, jobVars, stopVars>>

InitStop ==
    /\ stopping = FALSE
    /\ queuedAtStop = {}

Init == InitBroker /\ InitOrch /\ InitOps /\ InitLife /\ InitJobs /\ InitStop

\* an orchestrator that is started, asked for summaries, stopped and started
\* again
NextStop ==
    \/ agents = {} /\ OrchestratorStart
    \/ OrchestratorStopCancel
    \/ OrchestratorStopFinish
    \/ OrchestratorStopFinishRaise
    \/ OrchestratorStartAgain
    \/ BrokerGet /\ UNCHANGED <<orchVars, opVars, restVars>>
    \/ BrokerTimeout
    \/ DispatchEnd /\ UNCHANGED <<orchVars, opVars, restVars>>
    \/ \E k \in 1..MaxEmails : \E sent \in BOOLEAN :
           ops < MaxStopOps /\ GenerateSummaryOnly(k, sent)
    \/ OrchSummarizationCompleted
    \/ OrchEmailsMarkedRead

SpecStop == Init /\ [][NextStop]_vars

\* a SchedulerAgent is started once and its jobs fire
NextJobs ==
    \/ sched = "unset" /\ StartAgent("Scheduler", FALSE)
    \/ \E j \in Jobs : fired[j] < MaxFires /\ JobFire(j)
    \/ \E j \in Jobs : JobEnd(j)

SpecJobs == Init /\ [][NextJobs]_vars

NextAgents ==
    \/ \E a \in ManagedAgents : StartAgent(a, FALSE)
    \/ \E a \in InitialisingAgents : StartAgent(a, TRUE)
    \/ \E a \in ManagedAgents : StopAgent(a)
    \/ \E a \in ManagedAgents : HealthCheck(a)

SpecAgents == Init /\ [][NextAgents]_vars


\* the orchestrator with its agents: calls of run_full_pipeline and the
\* messages they cause
Next ==
    \/ OrchestratorStart
    \/ BrokerGet /\ UNCHANGED <<orchVars, opVars, restVars>>
    \/ BrokerTimeout
    \/ DispatchEnd /\ UNCHANGED <<orchVars, opVars, restVars>>
    \/ \E r \in RunIds : RunStart(r)
    \/ \E r \in RunIds : \E n \in 0..MaxEmails : CollectReturn(r, n)
    \/ \E r \in RunIds : CollectRaise(r)
    \/ DetectorSkip
    \/ DetectorBegin
    \/ \E d, p \in 0..MaxEmails : DetectorFinish(d, p)
    \/ SummarizerSkip
    \/ SummarizerBegin
    \/ \E k \in 1..MaxEmails : \E sent \in BOOLEAN : SummarizerFinish(k, sent)
    \/ SummarizerRaise
    \/ OrchDetectionCompleted
    \/ OrchSummarizationCompleted
    \/ OrchEmailsMarkedRead
    \/ \E n \in 0..MaxEmails : ops < MaxOps /\ CollectEmailsOnly(n)
    \/ ops < MaxOps /\ CollectEmailsOnlyRaise
    \/ \E d, p \in 0..MaxEmails : ops < MaxOps /\ DetectNewslettersOnly(d, p)
    \/ ops < MaxOps /\ DetectNewslettersOnlyNone
    \/ ops < MaxOps /\ DetectNewslettersOnlyRaise
    \/ \E k \in 1..MaxEmails : \E sent \in BOOLEAN :
           ops < MaxOps /\ GenerateSummaryOnly(k, sent)
    \/ ops < MaxOps /\ GenerateSummaryOnlyNone
    \/ ops < MaxOps /\ GenerateSummaryOnlyRaise
    \/ ops < MaxOps /\ GetSystemHealth
    \/ \E r \in RunIds : ops < MaxOps /\ TriggerManualSummaryReturns(r)

Spec == Init /\ [][Next]_vars

\* one call of run_full_pipeline on a started orchestrator, with the real
\* agents and no other call of the orchestrator's operations
NextSingle ==
    \/ OrchestratorStart
    \/ BrokerGet /\ UNCHANGED <<orchVars, opVars, restVars>>
    \/ BrokerTimeout
    \/ DispatchEnd /\ UNCHANGED <<orchVars, opVars, restVars>>
    \/ RunStart(1)
    \/ \E n \in 0..MaxSingleEmails : CollectReturn(1, n)
    \/ CollectRaise(1)
    \/ DetectorSkip
    \/ DetectorBegin
    \/ \E d, p \in 0..MaxSingleEmails : DetectorFinish(d, p)
    \/ SummarizerSkip
    \/ SummarizerBegin
    \/ \E k \in 1..MaxSingleEmails : \E sent \in BOOLEAN :
           SummarizerFinish(k, sent)
    \/ SummarizerRaise
    \/ OrchDetectionCompleted
    \/ OrchSummarizationCompleted
    \/ OrchEmailsMarkedRead

SpecSingle == Init /\ [][NextSingle]_vars

\* the harness: callbacks h1, h2, h3 that may suspend, raise, publish,
\* subscribe and unsubscribe
HarnessStep ==
    \/ BrokerStart
    \/ BrokerGet
    \/ BrokerTimeout
    \/ \E cb \in HarnessCallbacks : CallbackStart(cb)
    \/ \E inv \in active : CallbackEnd(inv, FALSE)
    \/ \E inv \in active : CallbackEnd(inv, TRUE)
    \/ DispatchEnd
    \/ \E k \in HarnessKinds : nextId < MaxPublish /\ HarnessPublish(k)
    \/ \E cb \in HarnessCallbacks : subOps < MaxSubOps /\ HarnessSubscribe(cb)
    \/ \E cb \in HarnessCallbacks : subOps < MaxSubOps /\ HarnessUnsubscribe(cb)

NextBroker == HarnessStep /\ UNCHANGED <<orchVars, opVars, restVars>>

SpecBroker == Init /\ [][NextBroker]_vars

\* the harness together with the agents whose start() subscribes twice
SubsStep ==
    \/ BrokerStart
    \/ BrokerGet
    \/ BrokerTimeout
    \/ \E cb \in AllCallbacks : CallbackStart(cb)
    \/ \E inv \in active : CallbackEnd(inv, FALSE)
    \/ DispatchEnd
    \/ \E k \in HarnessKinds : nextId < MaxPublishSubs /\ HarnessPublish(k)
    \/ \E cb \in HarnessCallbacks : subOps < MaxSubOps /\ HarnessSubscribe(cb)
    \/ \E cb \in HarnessCallbacks : subOps < MaxSubOps /\ HarnessUnsubscribe(cb)
    \/ \E a \in DoubleSetupAgents : AgentStart(a)

NextSubs == SubsStep /\ UNCHANGED <<orchVars, opVars, restVars>>

SpecSubs == Init /\ [][NextSubs]_vars

(***************************************************************************)
(* Properties of the broker.                                               *)
(***************************************************************************)
\* the callbacks that were invoked with message id, in the order of invocation
Deliveries(id) ==
    LET s == SelectSeq(log, LAMBDA e : e[1] = id)
    IN  [i \in 1..Len(s) |-> s[i][2]]

\* how many times callback cb was invoked with message id
Received(id, cb) == Cardinality({i \in 1..Len(log) : log[i] = <<id, cb>>})

NoDuplicates(list) ==
    \A i, j \in 1..Len(list) : i # j => list[i] # list[j]

InPublishOrder ==
    \A i, j \in 1..Len(log) : i < j => log[i][1] <= log[j][1]

\* C1: each callback subscribed to a message's kind receives the message
\* exactly once, and messages are received in the order they were published:
\* when the dispatch of a message has ended and its kind's subscriber list was
\* the same throughout, the invocations for it are exactly that list, and the
\* invocations follow the publish order of their messages.  (A list that
\* changes during the dispatch is the case of C4.)
C1_ExactlyOnceInPublishOrder ==
    /\ \A d \in done : ~d.mutated => Deliveries(d.id) = d.snap
    /\ \A d \in done : ~d.mutated =>
           \A cb \in HarnessCallbacks :
               Received(d.id, cb) = IF Contains(d.snap, cb) THEN 1 ELSE 0
    /\ InPublishOrder
    /\ \A d1, d2 \in done : d1.id = d2.id => d1 = d2

\* two messages of one kind were dispatched to two subscribed callbacks each
C1_Witness ==
    \E d1, d2 \in done :
        /\ d1.id < d2.id
        /\ d1.type = d2.type
        /\ ~d1.mutated /\ ~d2.mutated
        /\ Len(d1.snap) = 2 /\ Len(d2.snap) = 2
        /\ Deliveries(d2.id) = d2.snap

ScenarioKinds == <<KindA, KindA, KindB>>

ScenarioSubscribers(k) == IF k = KindA THEN <<"h1", "h2">> ELSE <<"h3">>

ScenarioLog == << <<1, "h1">>, <<1, "h2">>, <<2, "h1">>, <<2, "h2">>, <<3, "h3">> >>

\* A, A, B were published in this order and dispatched to h1, h2 on A, h3 on B
ScenarioDispatched ==
    \A n \in 1..3 :
        \E d \in done :
            /\ d.id = n
            /\ d.type = ScenarioKinds[n]
            /\ d.snap = ScenarioSubscribers(d.type)
            /\ ~d.mutated

\* C2: invocations are ordered by publish order of their messages and, within
\* one message, by the order of the subscriber list; a callback is invoked only
\* when no other invocation is in progress (the loop is suspended while a
\* callback runs, also one that suspends), so no callback of a later message
\* starts before the callbacks of the earlier ones have ended; publishing
\* A, A, B with h1, h2 on A and h3 on B gives [A->h1, A->h2, A->h1, A->h2, B->h3].
C2_SerializedDispatch ==
    /\ Cardinality(active) <= 1
    /\ \A inv \in active : bpc = "in_callback" /\ inv[1] = cur.id
    /\ InPublishOrder
    /\ \A d \in done : ~d.mutated => Deliveries(d.id) = d.snap
    /\ ScenarioDispatched =>
           SelectSeq(log, LAMBDA e : e[1] <= 3) = ScenarioLog

\* the scenario has run: A, A, B dispatched to h1, h2 on A and h3 on B
C2_Witness ==
    /\ ScenarioDispatched
    /\ SelectSeq(log, LAMBDA e : e[1] <= 3) = ScenarioLog

\* C3: a callback appears at most once in the subscriber list of each kind;
\* a callback subscribed twice receives each message once; unsubscribing a
\* callback that is not in the list leaves the table as it is; agents whose
\* start() runs _setup_subscriptions twice are subscribed once.
C3_AtMostOncePerKind ==
    /\ \A k \in MessageType : NoDuplicates(subscribers[k])
    /\ \A d \in done : ~d.mutated =>
           \A cb \in AllCallbacks : Received(d.id, cb) <= 1
    /\ \A k \in MessageType : \A cb \in AllCallbacks :
           ~Contains(subscribers[k], cb) =>
               Unsubscribe(subscribers, k, cb) = subscribers
    /\ \A k \in MessageType : \A cb \in AllCallbacks :
           Contains(subscribers[k], cb) =>
               Subscribe(subscribers, k, cb) = subscribers
    /\ \A a \in DoubleSetupAgents :
           agent_running[a] =>
               Cardinality({i \in 1..Len(subscribers[AgentKind(a)]) :
                               subscribers[AgentKind(a)][i] = AgentCallback(a)}) = 1

\* the detector was started (two subscribe calls for its callback), the one
\* harness call so far left the table as it was, and a message was delivered
\* to the detector's callback once
C3_Witness ==
    /\ agent_running["NewsletterDetector"]
    /\ subscribers[KindA] = <<DetectorCallback>>
    /\ subOps = 1
    /\ \E d \in done :
           /\ d.snap = <<DetectorCallback>>
           /\ Received(d.id, DetectorCallback) = 1

\* C4: every callback that was subscribed when the dispatch of a message began
\* receives that message exactly once, whatever is unsubscribed during the
\* dispatch.
C4_UnsubscribeKeepsCurrentDispatch ==
    \A d \in done :
        \A i \in 1..Len(d.snap) : Received(d.id, d.snap[i]) = 1

\* C5: a callback that raises does not stop the broker: the other callbacks of
\* the message are still invoked in order, no message is dropped, and the loop
\* keeps running.
C5_RaiseDoesNotStopDispatch ==
    /\ \A d \in done : (d.raisedAt > 0 /\ ~d.mutated) => Deliveries(d.id) = d.snap
    /\ (raisedAt > 0 /\ ~mutated /\ bpc = "dispatching") =>
           Deliveries(cur.id) = SubSeq(snap, 1, idx - 1)
    /\ (\E d \in done : d.raisedAt > 0) =>
           /\ broker_running
           /\ bpc \in {"waiting", "dispatching", "in_callback"}
    /\ \A n \in 1..nextId :
           \/ \E i \in 1..Len(message_queue) : message_queue[i].id = n
           \/ cur.id = n
           \/ \E d \in done : d.id = n

\* the first of two callbacks raised, the second was still invoked, and a
\* message published later was dispatched afterwards
C5_Witness ==
    \E d1, d2 \in done :
        /\ d1.raisedAt = 1
        /\ Len(d1.snap) = 2
        /\ ~d1.mutated
        /\ Deliveries(d1.id) = d1.snap
        /\ d2.id > d1.id
        /\ d2.snap # <<>>
        /\ Deliveries(d2.id) = d2.snap

(***************************************************************************)
(* Properties of run_full_pipeline.                                        *)
(***************************************************************************)
\* the call of run r leaves email_collector.execute() in this step
LeavesCollection(r) == rpc[r] = "collecting" /\ rpc'[r] # "collecting"

\* run r has been resolved after its record was registered in pipeline_state
ResolvedAfterRegistering(r) ==
    rpc[r] = "returned" /\ enteredWait[r] /\ pipeline_result = r

\* C6: a run whose collection step returns collected_count = 0 terminates
\* with status completed without entering the wait phase: the step that
\* resolves it leaves both completion flags and the registered run record as
\* they were, and the call never reaches the poll loop
C6_ZeroCollectionSkipsWait ==
    [][\A r \in RunIds :
          (/\ LeavesCollection(r)
           /\ runs'[r].steps["email_collection"] = Step("completed", 0, 0))
          => /\ rpc'[r] = "returned"
             /\ runs'[r].status = "completed"
             /\ ~enteredWait'[r]
             /\ UNCHANGED <<ndc, csc, pipeline_result>>]_vars

\* the second run collected nothing and is completed, while the flags the
\* first run's messages set, and its record, are still in pipeline_state
C6_Witness ==
    /\ rpc[2] = "returned"
    /\ runs[2].steps["email_collection"] = Step("completed", 0, 0)
    /\ runs[2].status = "completed"
    /\ ndc /\ csc
    /\ pipeline_result = 1

\* C7: in a run that entered the wait phase, once both completion flags have
\* become true the run resolves with status completed
C7_BothFlagsResolveCompleted ==
    \A r \in RunIds :
        (enteredWait[r] /\ pipeline_result = r /\ ndc /\ csc)
        => runs[r].status = "completed"

\* C8: a run that entered the wait phase and is resolved while at least one
\* of the two completion flags is not true returns status timeout
C8_MissingFlagResolvesTimeout ==
    \A r \in RunIds :
        (ResolvedAfterRegistering(r) /\ ~(ndc /\ csc))
        => runs[r].status = "timeout"

\* C9: when email_collector.execute raises, run_full_pipeline returns (it does
\* not raise) in that step with status failed and the error, without
\* registering a run record, clearing the completion flags or entering the
\* poll loop
C9_CollectionRaiseFailsRun ==
    [][\A r \in RunIds :
          (LeavesCollection(r) /\ collectRaised'[r])
          => /\ rpc'[r] = "returned"
             /\ runs'[r].status = "failed"
             /\ runs'[r].error
             /\ ~enteredWait'[r]
             /\ UNCHANGED <<ndc, csc, pipeline_result>>]_vars

\* the second run's collection raised: it is failed, and the flags and the
\* record of the first run are still in pipeline_state
C9_Witness ==
    /\ rpc[2] = "returned"
    /\ collectRaised[2]
    /\ runs[2].status = "failed"
    /\ runs[2].error
    /\ ndc /\ csc
    /\ pipeline_result = 1

\* C10: a run is failed only when its collection call raised
C10_FailedOnlyWhenCollectionRaised ==
    \A r \in RunIds : runs[r].status = "failed" => collectRaised[r]

(***************************************************************************)
(* Properties of the orchestrator's message handlers.                      *)
(***************************************************************************)
\* the orchestrator's callback cb is called in this step
Handles(cb) == Calls(cb) /\ idx' = idx + 1

\* C11: an EMAILS_MARKED_READ message without the pipeline_completion
\* discriminator never changes the active run: the step in which the
\* orchestrator handles it leaves every step of every record, both completion
\* flags and the registration as they were
C11_PlainMarkedReadChangesNothing ==
    [][(Handles(OrchMarkedReadCallback) /\ ~cur.data.pipeline_completion)
          => UNCHANGED <<runs, ndc, csc, pipeline_result>>]_vars

\* the orchestrator has handled the summarizer's mark-as-read request while
\* the registered run had its mark_emails_read step in progress, and the step
\* still is
C11_Witness ==
    /\ cur.type = "emails_marked_read"
    /\ ~cur.data.pipeline_completion
    /\ <<cur.id, OrchMarkedReadCallback>> \in {log[i] : i \in 1..Len(log)}
    /\ pipeline_result # 0
    /\ runs[pipeline_result].steps["mark_emails_read"].status = "in_progress"

\* the orchestrator's callbacks that update the registered run record
OrchPassiveCallbacks ==
    {OrchDetectionCallback, OrchSummarizationCallback, OrchMarkedReadCallback}

\* C12: the record of a run is registered before any message of that run is
\* fanned out, so whenever one of the orchestrator's handlers is called for a
\* message of run r, the registered record is the record of run r
C12_HandlerSeesOwnRunRegistered ==
    \A cb \in OrchPassiveCallbacks :
        (Calls(cb) /\ cur.data.run \in RunIds) => pipeline_result = cur.data.run

\* C13: with no run registered, the orchestrator's handlers for
\* NEWSLETTER_DETECTED, SUMMARY_GENERATED and EMAILS_MARKED_READ are no-ops:
\* the step in which one of them is called leaves both completion flags, the
\* registration and every record as they were
C13_NoRunRegisteredHandlersNoOp ==
    [][\A cb \in OrchPassiveCallbacks :
          (Handles(cb) /\ pipeline_result = 0)
          => UNCHANGED <<ndc, csc, pipeline_result, runs>>]_vars

\* the order of the statuses of a step: not started, in progress, finished
StatusRank(s) ==
    CASE s = "absent" -> 0
      [] s = "in_progress" -> 1
      [] OTHER -> 2

ResultStatuses == {"started", "completed", "failed", "timeout"}

\* C15: every result a public operation of the orchestrator has returned to
\* its caller carries a status in {started, completed, failed, timeout}
C15_EveryResultCarriesStatus ==
    /\ \A x \in returned : x[2] \in ResultStatuses
    /\ \A r \in RunIds : rpc[r] = "returned" => runs[r].status \in ResultStatuses

C17_OneInstancePerJob ==
    \A j \in Jobs :
        /\ instances[j] <= 1
        /\ fired[j] = instances[j] + finished[j] + skipped[j]

\* daily_summary fired while its earlier invocation was running: the fire
\* was dropped, and after that invocation ended nothing of the job runs
C17_Witness ==
    /\ fired["daily_summary"] = 2
    /\ skipped["daily_summary"] = 1
    /\ finished["daily_summary"] = 1
    /\ instances["daily_summary"] = 0

(***************************************************************************)
(* Properties of stopping the orchestrator.                                *)
(***************************************************************************)
\* C18: a message that was queued in the broker when the orchestrator's stop
\* cancelled the broker task is dropped: no callback is ever called for it,
\* also not after the orchestrator is started again
C18_QueuedAtStopNeverHandled ==
    \A i \in 1..Len(log) : log[i][1] \notin queuedAtStop

C20_SummarizationCompletedUpdatesRun ==
    [][(Handles(OrchSummarizationCallback) /\ pipeline_result # 0)
          => LET before == runs[pipeline_result].steps
                 after == runs'[pipeline_result].steps
             IN  /\ csc'
                 /\ after["content_summarization"].status = "completed"
                 /\ cur.data.email_sent
                    => after["mark_emails_read"].status = "in_progress"
                 /\ ~cur.data.email_sent
                    => after["mark_emails_read"] = before["mark_emails_read"]]_vars

(***************************************************************************)
(* Properties of the messages of a run.                                    *)
(***************************************************************************)
\* C21: the EMAILS_MARKED_READ message the summarizer publishes for a run
\* whose digest was sent carries pipeline_completion = true
C21_SummarizerSetsDiscriminator ==
    \A i \in 1..Len(message_queue) :
        LET m == message_queue[i]
        IN  (/\ m.type = "emails_marked_read"
             /\ m.sender = "ContentSummarizer"
             /\ m.data.run \in RunIds)
            => m.data.pipeline_completion

\* NEWSLETTER_DETECTED with detected_count = 0 was handled for the registered
\* run r and no content_summarization step was started
DetectedNothing(r) ==
    /\ enteredWait[r]
    /\ pipeline_result = r
    /\ ndc
    /\ runs[r].steps["newsletter_detection"] \in
           {Step("completed", 0, p) : p \in 0..MaxEmails}
    /\ runs[r].steps["content_summarization"].status = "absent"

\* C22: a run for which NEWSLETTER_DETECTED arrived with detected_count = 0
\* resolves with status completed, without a content_summarization step
C22_NothingDetectedResolvesCompleted ==
    \A r \in RunIds :
        (DetectedNothing(r) /\ rpc[r] = "returned")
        => runs[r].status = "completed"

\* C23: when the work a broker callback of the detector or the summarizer
\* awaits raises, the stage publishes an ERROR_OCCURRED message: in the step
\* in which the callback raises into _process_message, such a message is put
\* on the queue
C23_StageFailurePublishesError ==
    [][(raisedAt = 0 /\ raisedAt' # 0)
          => \E i \in 1..Len(message_queue') :
                 message_queue'[i].type = "error_occurred"]_vars

\* C24: once run_full_pipeline has returned the record of a run, no later
\* NEWSLETTER_DETECTED, SUMMARY_GENERATED or EMAILS_MARKED_READ message
\* changes that record
C24_ReturnedRecordIsFrozen ==
    [][\A r \in RunIds : rpc[r] = "returned" => runs'[r] = runs[r]]_vars

(***************************************************************************)
(* Properties of a single run with the real agents.                        *)
(***************************************************************************)
\* the position of the first call of cb for message id in the log (0: none)
FirstCall(id, cb) ==
    IF \E i \in 1..Len(log) : log[i] = <<id, cb>>
    THEN CHOOSE i \in 1..Len(log) :
             /\ log[i] = <<id, cb>>
             /\ \A j \in 1..(i - 1) : log[j] # <<id, cb>>
    ELSE 0

\* C25: in a single run the summarization flag is never true while the
\* detection flag is false, although the summarizer's callback for
\* NEWSLETTER_DETECTED is called before the orchestrator's
C25_SummarizationAfterDetection ==
    /\ csc => ndc
    /\ \A id \in 1..nextId :
           FirstCall(id, OrchDetectionCallback) # 0
           => /\ FirstCall(id, SummarizerCallback) # 0
              /\ FirstCall(id, SummarizerCallback)
                     < FirstCall(id, OrchDetectionCallback)

\* both flags are true for the run, and for one NEWSLETTER_DETECTED message
\* the summarizer's callback was called before the orchestrator's
C25_Witness ==
    /\ pipeline_result = 1
    /\ ndc /\ csc
    /\ \E id \in 1..nextId :
           /\ FirstCall(id, SummarizerCallback) # 0
           /\ FirstCall(id, SummarizerCallback)
                  < FirstCall(id, OrchDetectionCallback)

(***************************************************************************)
(* Properties of several runs.                                             *)
(***************************************************************************)
\* C26: two calls of run_full_pipeline do not interfere: a handler of the
\* orchestrator changes the record of run r only when it handles a message
\* caused by the collection of run r
C26_RecordUpdatedByOwnMessagesOnly ==
    [][\A cb \in OrchPassiveCallbacks : \A r \in RunIds :
          (Handles(cb) /\ runs'[r] # runs[r]) => cur.data.run = r]_vars

\* C27: a completion flag of the registered run becomes true only through a
\* message caused by that run's own collection, never through a late
\* NEWSLETTER_DETECTED or SUMMARY_GENERATED of an earlier run
C27_FlagsSetByOwnMessagesOnly ==
    [][(/\ pipeline_result \in RunIds
        /\ \/ Handles(OrchDetectionCallback) /\ ~ndc /\ ndc'
           \/ Handles(OrchSummarizationCallback) /\ ~csc /\ csc')
          => cur.data.run = pipeline_result]_vars

\* C28: when the summarizer's EMAILS_MARKED_READ message of a run is
\* dispatched to the orchestrator, the SUMMARY_GENERATED of that run has been
\* handled already: the mark_emails_read step of the run is seeded
C28_MarkedReadAfterSummaryGenerated ==
    (/\ Calls(OrchMarkedReadCallback)
     /\ cur.sender = "ContentSummarizer"
     /\ cur.data.run \in RunIds
     /\ cur.data.run = pipeline_result)
    => runs[pipeline_result].steps["mark_emails_read"].status # "absent"

\* C29: when OrchestratorAgent.stop() returns, the broker's dispatch loop is
\* stopped and every managed agent and the orchestrator have running = false
C29_StopLeavesNothingRunning ==
    [][(stopping /\ ~stopping')
          => /\ ~broker_running'
             /\ bpc' = "idle"
             /\ \A a \in ManagedAgents : ~agent_running'[a]
             /\ ~orch_running']_vars

\* C30: when trigger_manual_summary returns for a run_full_pipeline call whose
\* result has status failed, the status it reports is failed
C30_FailedRunReportedFailed ==
    [][\A r \in RunIds :
          (TriggerManualSummaryReturns(r) /\ runs[r].status = "failed")
             => <<"trigger_manual_summary", "failed">> \in returned']_vars

=============================================================================
